---- MODULE Spec2Model ----
(***************************************************************************)
(* Scan session of src/App.tsx: the onCodeScanned handler (coordinate      *)
(* mapping, per-frame value list, 300 ms clear timer), the Start/Stop      *)
(* button and the unmount cleanup.                                         *)
(*                                                                         *)
(* JavaScript numbers are modelled as exact fractions [n, d]; d = 0 holds  *)
(* the non-finite values a division by zero produces (1/0 Infinity,        *)
(* -1/0 -Infinity, 0/0 NaN).  IEEE rounding and the sign of zero are not   *)
(* modelled.                                                               *)
(***************************************************************************)
EXTENDS Integers, Sequences, FiniteSets, TLC

VARIABLES
    isScanning,   \* React state, App.tsx:20
    boxes,        \* React state, App.tsx:21
    uniqueCodes,  \* React state, App.tsx:25
    timerRef,     \* timerRef.current, App.tsx:30
    timers,       \* the runtime's pending setTimeout entries
    mounted,      \* the component is mounted
    lastEvent,    \* history: the event handled last, with what it consumed
    silence,      \* history: ms of silence since the last accepted non-empty frame
    fired         \* history: timer callbacks run since that frame

vars == <<isScanning, boxes, uniqueCodes, timerRef, timers,
          mounted, lastEvent, silence, fired>>

prog == <<isScanning, boxes, uniqueCodes, timerRef, timers>>

(***************************************************************************)
(* Bounds of the model.                                                    *)
(***************************************************************************)
MaxCodes == 2      \* codes per detection frame
MaxTimers == 3     \* timer handles the runtime hands out at one time
MaxLag == 1        \* ms Date.now() may advance while one frame is handled
TickStep == 150    \* ms of time passing in one Tick

(***************************************************************************)
(* Program constants.                                                      *)
(***************************************************************************)
ClearDelay == 300

Null == [tag |-> "null", s |-> ""]
Undefined == [tag |-> "undefined", s |-> ""]
Str(s) == [tag |-> "string", s |-> s]
None == -1

(***************************************************************************)
(* JavaScript numbers.                                                     *)
(***************************************************************************)
Sign(k) == IF k > 0 THEN 1 ELSE IF k < 0 THEN -1 ELSE 0
Abs(k) == IF k < 0 THEN -k ELSE k

RECURSIVE GCD(_, _)
GCD(a, b) == IF b = 0 THEN a ELSE GCD(b, a % b)

Norm(n, d) ==
    IF d = 0 THEN [n |-> Sign(n), d |-> 0]
    ELSE LET g == GCD(Abs(n), Abs(d))
         IN  [n |-> (Sign(d) * n) \div g, d |-> Abs(d) \div g]

Num(k) == [n |-> k, d |-> 1]
Frac(n, d) == Norm(n, d)
NaN == [n |-> 0, d |-> 0]
IsNaN(a) == a.n = 0 /\ a.d = 0
IsFinite(a) == a.d # 0

Mul(a, b) ==
    IF IsNaN(a) \/ IsNaN(b) THEN NaN ELSE Norm(a.n * b.n, a.d * b.d)

Div(a, b) ==
    IF IsNaN(a) \/ IsNaN(b) THEN NaN
    ELSE IF a.d = 0 /\ b.d = 0 THEN NaN
    ELSE LET sb == IF b.n < 0 THEN -1 ELSE 1
         IN  Norm(a.n * b.d * sb, a.d * b.n * sb)

\* Math.round of a finite number: the nearest integer, halves upwards.
Round(a) == Num((2 * a.n + a.d) \div (2 * a.d))

(***************************************************************************)
(* Device metrics, App.tsx:13-18.                                          *)
(***************************************************************************)
\* What Dimensions.get('window') and PixelRatio.get() report: a window of
\* 411.5 x 731 DIPs at 2.625 pixels per DIP (1080.1875 x 1918.875 pixels).
Window == [width |-> Frac(823, 2), height |-> Num(731)]
pixelRatio == Frac(21, 8)

screenWidthDIPs == Window.width
screenHeightDIPs == Window.height
screenWidthPixels == Mul(screenWidthDIPs, pixelRatio)
screenHeightPixels == Mul(screenHeightDIPs, pixelRatio)
screenWidthPixelsRounded == Round(screenWidthPixels)
screenHeightPixelsRounded == Round(screenHeightPixels)

(***************************************************************************)
(* What the scanner delivers.                                              *)
(***************************************************************************)
Pt(x, y) == [x |-> Num(x), y |-> Num(y)]
Rect(x, y, w, h) ==
    [x |-> Num(x), y |-> Num(y), width |-> Num(w), height |-> Num(h)]

\* The codes the scanner may report, by name.
RawCode(name) ==
    CASE name = "qrA" ->
            [value |-> Str("QR-A"), frame |-> Rect(100, 50, 40, 20),
             corners |-> <<Pt(100, 50), Pt(140, 50), Pt(140, 70), Pt(100, 70)>>]
      [] name = "eanNull" ->
            [value |-> Null, frame |-> Rect(0, 320, 64, 48),
             corners |-> <<Pt(0, 320), Pt(64, 320), Pt(64, 368), Pt(32, 380),
                           Pt(0, 368)>>]
      [] name = "qrUndefined" ->
            [value |-> Undefined, frame |-> Rect(200, 10, 16, 16),
             corners |-> <<>>]

CodeNames == {"qrA", "eanNull", "qrUndefined"}

Frames == { [width |-> Num(480), height |-> Num(640)],
            [width |-> Num(0), height |-> Num(480)] }

RawCodes == { RawCode(name) : name \in CodeNames }

NameLists == UNION { [1..n -> CodeNames] : n \in 0..MaxCodes }

\* The codes argument of onCodeScanned for a list of names.
Codes(names) == [i \in 1..Len(names) |-> RawCode(names[i])]

\* Date.now() at line 41 and at line 69: either the clock stands still while
\* the frame is handled, or it has moved on by MaxLag when the values are
\* mapped at lines 66-70.
Clock == { [startTime |-> 0, lag |-> 0], [startTime |-> 1000, lag |-> MaxLag] }

NoFrame == [width |-> Num(0), height |-> Num(0)]

\* History of the event handled last: its kind, isScanning and silence when it
\* arrived and, for a frame the handler went on to read, the frame itself.
Event(kind, n, names, frame) ==
    [kind |-> kind, scanning |-> isScanning, silence |-> silence, n |-> n,
     names |-> names, frame |-> frame]

Plain(kind) == Event(kind, 0, <<>>, NoFrame)

(***************************************************************************)
(* onCodeScanned, App.tsx:34-88.                                           *)
(***************************************************************************)
\* PointKey numbering the corners from 0.
PointKeyFromZero(index, axis) == <<"point", index, axis>>

\* The template strings of lines 46-47.
PointKey(index, axis) == <<"point", index + 1, axis>>

\* ScaleX with the divisor of the other axis.
ScaleXByWidth(v, frame) == Div(Mul(v, screenWidthPixelsRounded), frame.width)

\* Lines 46, 50 and 52: a horizontal quantity in display pixels.
ScaleX(v, frame) == Div(Mul(v, screenWidthPixelsRounded), frame.height)

\* Lines 47, 51 and 53: a vertical quantity in display pixels.
ScaleY(v, frame) == Div(Mul(v, screenHeightPixelsRounded), frame.width)

\* code.corners.reduce(..., {}), lines 45-49; index runs from 0.
RECURSIVE CornersReduce(_, _, _, _)
CornersReduce(acc, corners, index, frame) ==
    IF index >= Len(corners) THEN acc
    ELSE LET corner == corners[index + 1]
             acc1 == (PointKey(index, "x") :> ScaleX(corner.x, frame)) @@ acc
             acc2 == (PointKey(index, "y") :> ScaleY(corner.y, frame)) @@ acc1
         IN  CornersReduce(acc2, corners, index + 1, frame)

\* The body of codes.map at lines 44-62.
MapCode(code, frame) ==
    LET corners == CornersReduce(<<>>, code.corners, 0, frame)
        x == ScaleX(code.frame.x, frame)
        y == ScaleY(code.frame.y, frame)
        width == ScaleX(code.frame.width, frame)
        height == ScaleY(code.frame.height, frame)
    IN  [x |-> Div(x, pixelRatio),
         y |-> Div(y, pixelRatio),
         width |-> Div(width, pixelRatio),
         height |-> Div(height, pixelRatio),
         corners |-> corners]

\* MapCode, tabulated over what the scanner may deliver.
MapCodeOf == [code \in RawCodes, frame \in Frames |-> MapCode(code, frame)]

\* NewBoxes pushed onto the boxes already shown.
NewBoxesAppended(codes, frame) ==
    boxes \o [i \in 1..Len(codes) |-> MapCodeOf[codes[i], frame]]

\* NewBoxes losing the box of the last code.
NewBoxesButLast(codes, frame) ==
    [i \in 1..(Len(codes) - 1) |-> MapCodeOf[codes[i], frame]]

\* codes.map(...), lines 44-62.
NewBoxes(codes, frame) == [i \in 1..Len(codes) |-> MapCodeOf[codes[i], frame]]

\* HasValue without the test for undefined.
HasValueNotNull(data) == data.value # Null

\* The filter of line 71.
HasValue(data) == data.value # Undefined /\ data.value # Null

\* CurrentFrameValues with scanTime not taken relative to startTime.
CurrentFrameValuesAbsolute(codes, startTime, reads) ==
    LET mapped == [i \in 1..Len(codes) |->
                     [value |-> codes[i].value, scanTime |-> reads[i]]]
    IN  SelectSeq(mapped, HasValue)

\* Lines 66-71: map to {value, scanTime}, then filter.
CurrentFrameValues(codes, startTime, reads) ==
    LET mapped == [i \in 1..Len(codes) |->
                     [value |-> codes[i].value, scanTime |-> reads[i] - startTime]]
    IN  SelectSeq(mapped, HasValue)

\* ClearTimeout that cancels nothing.
ClearTimeoutNoOp(ts, id) == ts

\* clearTimeout(id): the entry with that handle, if pending, is dropped.
ClearTimeout(ts, id) == { t \in ts : t.id # id }

TimerIds(ts) == { t.id : t \in ts }

FreeIds(ts, ref) == (1..MaxTimers) \ (TimerIds(ts) \cup {ref})

\* setTimeout returns a handle no live timer and no kept reference uses.
NewId(ts, ref) ==
    CHOOSE i \in FreeIds(ts, ref) : \A j \in FreeIds(ts, ref) : i <= j

\* Cancelled without the clearTimeout.
CancelledNever(ts, ref) == ts

\* Lines 36-38 and 94-96: clearTimeout of the kept handle, if there is one.
Cancelled(ts, ref) == IF ref # None THEN ClearTimeout(ts, ref) ELSE ts

\* Lines 36-85: what the handler does once past the isScanning gate.
Accept(codes, frame) ==
    LET ts == Cancelled(timers, timerRef)
    IN  IF Len(codes) > 0
        THEN /\ FreeIds(ts, timerRef) # {}
             /\ boxes' = NewBoxes(codes, frame)
             /\ \E now \in Clock :
                  LET reads == [i \in 1..Len(codes) |-> now.startTime + now.lag]
                  IN  uniqueCodes' = CurrentFrameValues(codes, now.startTime, reads)
             /\ timerRef' = NewId(ts, timerRef)
             /\ timers' = ts \cup {[id |-> NewId(ts, timerRef),
                                    remaining |-> ClearDelay]}
        ELSE /\ boxes' = <<>>
             /\ uniqueCodes' = <<>>
             /\ timers' = ts
             /\ UNCHANGED timerRef

\* OnCodeScanned without the isScanning gate.
OnCodeScannedUngated(codes, frame) == Accept(codes, frame)

OnCodeScanned(codes, frame) ==
    IF isScanning
    THEN Accept(codes, frame)
    ELSE UNCHANGED <<boxes, uniqueCodes, timerRef, timers>>

\* The scanner delivers a frame to the mounted component.
Frame ==
    \E names \in NameLists : \E frame \in Frames :
        /\ mounted
        /\ OnCodeScanned(Codes(names), frame)
        /\ lastEvent' = IF isScanning
                        THEN Event("frame", Len(names), names, frame)
                        ELSE Event("frame", Len(names), <<>>, NoFrame)
        /\ silence' = IF isScanning /\ Len(names) > 0 THEN 0 ELSE None
        /\ fired' = 0
        /\ UNCHANGED <<isScanning, mounted>>

(***************************************************************************)
(* The callback of setTimeout, App.tsx:76-79, run by the runtime once the  *)
(* delay has passed.                                                       *)
(***************************************************************************)
\* Expired for a timer that repeats (setInterval).
ExpiredRepeating(ts, t) == ts

\* A setTimeout entry is one-shot: it leaves the pending set as it runs.
Expired(ts, t) == ts \ {t}

Timeout ==
    \E t \in timers :
        /\ t.remaining = 0
        /\ boxes' = <<>>
        /\ uniqueCodes' = <<>>
        /\ timers' = Expired(timers, t)
        /\ fired' = fired + 1
        /\ lastEvent' = Plain("timeout")
        /\ UNCHANGED <<isScanning, timerRef, mounted, silence>>

Elapse(r) == IF r > TickStep THEN r - TickStep ELSE 0

Tick ==
    /\ timers' = { [id |-> t.id, remaining |-> Elapse(t.remaining)] : t \in timers }
    /\ silence' = IF silence = None THEN None
                  ELSE IF silence + TickStep >= ClearDelay THEN ClearDelay
                  ELSE silence + TickStep
    /\ lastEvent' = Plain("tick")
    /\ UNCHANGED <<isScanning, boxes, uniqueCodes, timerRef, mounted, fired>>

(***************************************************************************)
(* The button row, App.tsx:160-166: one button, Stop while scanning and    *)
(* Start otherwise.                                                        *)
(***************************************************************************)
\* Line 161: which of the two buttons is rendered.
Rendered(title) == title = (IF isScanning THEN "Stop" ELSE "Start")

\* onPress of the Stop button, line 162.
StopPress == isScanning' = FALSE

\* onPress of the Start button, line 164.
StartPress == isScanning' = TRUE

\* Stop that also clears the kept timer handle's timeout.
StopCancelling ==
    /\ mounted
    /\ IF Rendered("Stop")
       THEN /\ StopPress /\ silence' = None /\ fired' = 0
            /\ timers' = Cancelled(timers, timerRef)
       ELSE UNCHANGED <<isScanning, silence, fired, timers>>
    /\ lastEvent' = Plain("stop")
    /\ UNCHANGED <<boxes, uniqueCodes, timerRef, mounted>>

\* A Stop intent: it presses the Stop button if there is one.
Stop ==
    /\ mounted
    /\ IF Rendered("Stop")
       THEN StopPress /\ silence' = None /\ fired' = 0
       ELSE UNCHANGED <<isScanning, silence, fired>>
    /\ lastEvent' = Plain("stop")
    /\ UNCHANGED <<boxes, uniqueCodes, timerRef, timers, mounted>>

\* Start as a press of whichever button is rendered.
StartToggling ==
    /\ mounted
    /\ IF Rendered("Start") THEN StartPress ELSE StopPress
    /\ lastEvent' = Plain("start")
    /\ UNCHANGED <<boxes, uniqueCodes, timerRef, timers, mounted,
                   silence, fired>>

\* Start that also empties the lists.
StartClearing ==
    /\ mounted
    /\ IF Rendered("Start")
       THEN StartPress /\ boxes' = <<>> /\ uniqueCodes' = <<>>
       ELSE UNCHANGED <<isScanning, boxes, uniqueCodes>>
    /\ lastEvent' = Plain("start")
    /\ UNCHANGED <<timerRef, timers, mounted, silence, fired>>

\* A Start intent: it presses the Start button if there is one.
Start ==
    /\ mounted
    /\ IF Rendered("Start")
       THEN StartPress
       ELSE UNCHANGED isScanning
    /\ lastEvent' = Plain("start")
    /\ UNCHANGED <<boxes, uniqueCodes, timerRef, timers, mounted,
                   silence, fired>>

(***************************************************************************)
(* The cleanup of useEffect, App.tsx:93-97.                                *)
(***************************************************************************)
\* Unmount without the cleanup.
UnmountNoCleanup ==
    /\ mounted
    /\ mounted' = FALSE
    /\ silence' = None
    /\ fired' = 0
    /\ lastEvent' = Plain("unmount")
    /\ UNCHANGED <<isScanning, boxes, uniqueCodes, timerRef, timers>>

Unmount ==
    /\ mounted
    /\ mounted' = FALSE
    /\ timers' = Cancelled(timers, timerRef)
    /\ silence' = None
    /\ fired' = 0
    /\ lastEvent' = Plain("unmount")
    /\ UNCHANGED <<isScanning, boxes, uniqueCodes, timerRef>>

Init ==
    /\ isScanning = FALSE
    /\ boxes = <<>>
    /\ uniqueCodes = <<>>
    /\ timerRef = None
    /\ timers = {}
    /\ mounted = TRUE
    /\ lastEvent = [kind |-> "mount", scanning |-> FALSE, silence |-> None,
                    n |-> 0, names |-> <<>>, frame |-> NoFrame]
    /\ silence = None
    /\ fired = 0

Next == Frame \/ Timeout \/ Tick \/ Stop \/ Start \/ Unmount

Spec == Init /\ [][Next]_vars

\* The runtime keeps time moving and runs every callback that is due.
FairSpec == Spec /\ WF_vars(Tick) /\ WF_vars(Timeout)

TypeOK ==
    /\ isScanning \in BOOLEAN
    /\ mounted \in BOOLEAN
    /\ timerRef \in {None} \cup (1..MaxTimers)
    /\ \A t \in timers : t.id \in 1..MaxTimers /\ t.remaining \in 0..ClearDelay
    /\ Len(uniqueCodes) <= MaxCodes
    /\ Len(boxes) <= MaxCodes

(***************************************************************************)
(* Properties.                                                             *)
(***************************************************************************)
\* The last event was a frame with codes that got past the isScanning gate.
AcceptedFrame ==
    lastEvent.kind = "frame" /\ lastEvent.scanning /\ lastEvent.n > 0

LastCodes == Codes(lastEvent.names)

\* C1: in the state right after a Stop issued while Active, the session is
\* Idle and boxes and uniqueCodes are both empty.
StopClearsLists ==
    (lastEvent.kind = "stop" /\ lastEvent.scanning)
        => (~isScanning /\ boxes = <<>> /\ uniqueCodes = <<>>)

\* C2: while the session stays Active and mounted and less than 300 ms have
\* passed since the last accepted non-empty frame, boxes is not empty, no clear
\* has run, and exactly one timer is pending, the one that frame scheduled,
\* with 300 ms less the time passed still to go (the full 300 ms right after
\* the frame, whether or not an earlier frame's timer was pending).
DebounceRefresh ==
    (silence # None /\ silence < ClearDelay)
        => /\ isScanning /\ mounted
           /\ boxes # <<>>
           /\ fired = 0
           /\ timers = {[id |-> timerRef, remaining |-> ClearDelay - silence]}

\* A non-empty frame F2 was accepted less than 300 ms after a non-empty F1.
DebounceRefreshWitness ==
    /\ AcceptedFrame
    /\ lastEvent.silence # None /\ lastEvent.silence < ClearDelay
    /\ silence = 0
    /\ Cardinality(timers) = 1

\* C3: after a non-empty frame is accepted, unless a further frame (which
\* resets silence or hands out a new timer handle), Stop or teardown follows,
\* boxes and uniqueCodes eventually are empty with no timer pending; the clear
\* runs only once the 300 ms have passed, and it runs once: after it no timer
\* is left to run it again.
DebounceExpiry ==
    /\ \A id \in 1..MaxTimers :
          (silence # None /\ timerRef = id)
             ~> \/ silence = None
                \/ timerRef # id
                \/ (fired = 1 /\ boxes = <<>> /\ uniqueCodes = <<>> /\ timers = {})
    /\ []((silence # None /\ fired > 0) =>
            (/\ fired = 1
             /\ silence = ClearDelay
             /\ boxes = <<>> /\ uniqueCodes = <<>>
             /\ timers = {}))

\* The timer of an accepted frame has run, with nothing else in between.
DebounceExpiryWitness ==
    silence = ClearDelay /\ fired = 1 /\ lastEvent.kind = "timeout"

\* C4: a frame delivered while isScanning is false changes none of boxes,
\* uniqueCodes, isScanning, the timer handle and the pending timers.
IdleSuppression ==
    [][(lastEvent'.kind = "frame" /\ ~isScanning) => UNCHANGED prog]_vars

\* A non-empty frame was ignored while boxes were shown and a timer pending.
IdleSuppressionWitness ==
    /\ lastEvent.kind = "frame" /\ ~lastEvent.scanning /\ lastEvent.n > 0
    /\ boxes # <<>>
    /\ timers # {}

\* C5: after any frame without codes, whatever the state before it, boxes and
\* uniqueCodes are empty and the frame has scheduled no timer.
EmptyFrameClears ==
    [][(lastEvent'.kind = "frame" /\ lastEvent'.n = 0)
          => (boxes' = <<>> /\ uniqueCodes' = <<>> /\ timers' \subseteq timers)]_vars

\* C6: after an accepted frame with n > 0 codes, boxes has n entries and the
\* i-th is the mapping of the frame's i-th code; nothing of earlier frames
\* is left.
BoxesFromFrame ==
    AcceptedFrame
        => /\ Len(boxes) = lastEvent.n
           /\ \A i \in 1..lastEvent.n :
                 boxes[i] = MapCode(LastCodes[i], lastEvent.frame)

\* Two different codes were accepted while boxes of an earlier frame were shown.
BoxesFromFrameWitness ==
    /\ AcceptedFrame
    /\ lastEvent.n = 2
    /\ lastEvent.names[1] # lastEvent.names[2]
    /\ lastEvent.silence # None /\ lastEvent.silence < ClearDelay
    /\ Len(boxes) = 2

\* The values of a list of codes that are neither null nor undefined, in order.
RECURSIVE DefinedValues(_)
DefinedValues(codes) ==
    IF codes = <<>> THEN <<>>
    ELSE LET v == Head(codes).value
         IN  IF v.tag = "string"
             THEN <<v>> \o DefinedValues(Tail(codes))
             ELSE DefinedValues(Tail(codes))

\* C7: after an accepted frame with n > 0 codes, the values of uniqueCodes are
\* the frame's code values that are neither null nor undefined, in input order
\* and with repetitions kept; so there are at most n of them.
ValuesFromFrame ==
    AcceptedFrame
        => /\ [i \in 1..Len(uniqueCodes) |-> uniqueCodes[i].value]
                 = DefinedValues(LastCodes)
           /\ Len(uniqueCodes) <= lastEvent.n

\* A frame with the same value twice gave two entries.
ValuesFromFrameWitness ==
    /\ AcceptedFrame
    /\ lastEvent.names = <<"qrA", "qrA">>
    /\ Len(uniqueCodes) = 2
    /\ uniqueCodes[1].value = uniqueCodes[2].value

\* C8: a Start intent while Active and a Stop intent while Idle change none of
\* isScanning, boxes, uniqueCodes, the timer handle and the pending timers.
ToggleIdempotent ==
    [][((lastEvent'.kind = "start" /\ isScanning)
          \/ (lastEvent'.kind = "stop" /\ ~isScanning)) => UNCHANGED prog]_vars

\* A Stop intent arrived while Idle, with boxes still shown.
ToggleIdempotentWitness ==
    lastEvent.kind = "stop" /\ ~lastEvent.scanning /\ boxes # <<>>

\* C9: for an accepted frame of non-zero width and height, every box is finite
\* and satisfies x * frame.height * pixelRatio = rect.x * screenWidthPixelsRounded,
\* the same for width, and y * frame.width * pixelRatio =
\* rect.y * screenHeightPixelsRounded, the same for height.
RectMapping ==
    (AcceptedFrame /\ lastEvent.frame.width # Num(0)
                   /\ lastEvent.frame.height # Num(0))
        => \A i \in 1..Len(boxes) :
              LET box == boxes[i]
                  rect == LastCodes[i].frame
                  fw == lastEvent.frame.width
                  fh == lastEvent.frame.height
              IN  /\ IsFinite(box.x) /\ IsFinite(box.y)
                  /\ IsFinite(box.width) /\ IsFinite(box.height)
                  /\ Mul(Mul(box.x, fh), pixelRatio)
                        = Mul(rect.x, screenWidthPixelsRounded)
                  /\ Mul(Mul(box.width, fh), pixelRatio)
                        = Mul(rect.width, screenWidthPixelsRounded)
                  /\ Mul(Mul(box.y, fw), pixelRatio)
                        = Mul(rect.y, screenHeightPixelsRounded)
                  /\ Mul(Mul(box.height, fw), pixelRatio)
                        = Mul(rect.height, screenHeightPixelsRounded)

\* The code of the 480 x 640 example was mapped: x = 100 * 1080 / 640 / 2.625.
RectMappingWitness ==
    /\ AcceptedFrame
    /\ lastEvent.names[1] = "qrA"
    /\ lastEvent.frame = [width |-> Num(480), height |-> Num(640)]
    /\ boxes[1].x = Frac(450, 7)

PointKeys(k) == { <<"point", j, axis>> : j \in 1..k, axis \in {"x", "y"} }

\* C10: after an accepted frame, the corners of the box of a code with k
\* corners have exactly the keys point1x..pointkx and point1y..pointky, and
\* point{j}x = corner_j.x * screenWidthPixelsRounded / frame.height and
\* point{j}y = corner_j.y * screenHeightPixelsRounded / frame.width, with no
\* division by pixelRatio.
CornerMapping ==
    AcceptedFrame
        => \A i \in 1..Len(boxes) :
              LET mapped == boxes[i].corners
                  corners == LastCodes[i].corners
                  fw == lastEvent.frame.width
                  fh == lastEvent.frame.height
              IN  /\ DOMAIN mapped = PointKeys(Len(corners))
                  /\ \A j \in 1..Len(corners) :
                        /\ mapped[<<"point", j, "x">>]
                              = Div(Mul(corners[j].x, screenWidthPixelsRounded), fh)
                        /\ mapped[<<"point", j, "y">>]
                              = Div(Mul(corners[j].y, screenHeightPixelsRounded), fw)
                        /\ fh # Num(0) =>
                              Mul(mapped[<<"point", j, "x">>], fh)
                                 = Mul(corners[j].x, screenWidthPixelsRounded)
                        /\ fw # Num(0) =>
                              Mul(mapped[<<"point", j, "y">>], fw)
                                 = Mul(corners[j].y, screenHeightPixelsRounded)

\* A code with five corners was mapped, on a device whose pixelRatio is not 1.
CornerMappingWitness ==
    /\ AcceptedFrame
    /\ lastEvent.names[1] = "eanNull"
    /\ lastEvent.frame.width # Num(0)
    /\ Cardinality(DOMAIN boxes[1].corners) = 10
    /\ pixelRatio # Num(1)
    /\ boxes[1].corners[<<"point", 4, "y">>] = Frac(1919 * 380, 480)

\* C11: in every reachable state at most one clear timer is pending.
OneTimer == Cardinality(timers) <= 1

\* A frame was accepted while the timer of an earlier frame was pending, and
\* one timer, with a handle of its own, is pending after it.
OneTimerWitness ==
    /\ AcceptedFrame
    /\ lastEvent.silence # None /\ lastEvent.silence < ClearDelay
    /\ timerRef > 1
    /\ \E t \in timers : t.id = timerRef

\* C12: while Active, handling a frame removes every timer that was pending
\* when it arrived; after an empty frame no timer is pending, and after a
\* non-empty frame the only pending timer is a new one, scheduled by that
\* frame with the full 300 ms.
FrameCancelsFirst ==
    [][(lastEvent'.kind = "frame" /\ isScanning)
          => /\ TimerIds(timers) \cap TimerIds(timers') = {}
             /\ IF lastEvent'.n = 0
                THEN timers' = {}
                ELSE timers' = {[id |-> timerRef', remaining |-> ClearDelay]}]_vars

\* An empty frame was accepted while a timer was pending: none is left.
FrameCancelsFirstWitness ==
    /\ lastEvent.kind = "frame" /\ lastEvent.scanning /\ lastEvent.n = 0
    /\ lastEvent.silence # None /\ lastEvent.silence < ClearDelay
    /\ timers = {}
    /\ timerRef # None

\* C13: whenever the clear timer expires while the session is Idle, boxes and
\* uniqueCodes are already empty.
IdleExpiryHarmless ==
    [][(lastEvent'.kind = "timeout" /\ ~isScanning)
          => (boxes = <<>> /\ uniqueCodes = <<>>)]_vars

\* C14: once the component is torn down no timer is pending, so no expiry
\* runs, and boxes and uniqueCodes never change again.
TeardownReleases ==
    /\ [](~mounted => timers = {})
    /\ [][~mounted => (lastEvent'.kind # "timeout"
                        /\ UNCHANGED <<boxes, uniqueCodes>>)]_vars

\* The component was torn down with boxes shown and their timer pending.
TeardownReleasesWitness ==
    /\ lastEvent.kind = "unmount"
    /\ lastEvent.silence # None /\ lastEvent.silence < ClearDelay
    /\ ~mounted
    /\ boxes # <<>>
    /\ timers = {}

\* C15: in the state right after a Stop issued while a clear timer is pending,
\* no clear timer is pending.
StopReleasesTimer ==
    [][(lastEvent'.kind = "stop" /\ isScanning /\ timers # {})
          => timers' = {}]_vars

\* C15, amended: a Stop issued while Active leaves the pending timers and the
\* kept handle as they were; a pending timer is released only by a frame
\* accepted while Active, by teardown or by its own expiry.
StopKeepsTimer ==
    /\ [][(lastEvent'.kind = "stop" /\ isScanning)
            => UNCHANGED <<timers, timerRef>>]_vars
    /\ [][(TimerIds(timers) \ TimerIds(timers') # {})
            => \/ lastEvent'.kind = "frame" /\ isScanning
               \/ lastEvent'.kind = "unmount"
               \/ lastEvent'.kind = "timeout"]_vars

\* A Stop was issued while Active and the timer is still pending after it.
StopKeepsTimerWitness ==
    /\ lastEvent.kind = "stop" /\ lastEvent.scanning
    /\ ~isScanning
    /\ \E t \in timers : t.id = timerRef

\* C16: a Start issued while Idle sets isScanning and changes none of boxes,
\* uniqueCodes, the timer handle and the pending timers.
StartClearsNothing ==
    [][(lastEvent'.kind = "start" /\ ~isScanning)
          => (isScanning' /\ UNCHANGED <<boxes, uniqueCodes, timerRef, timers>>)]_vars

\* A Start was issued while Idle with boxes shown and a timer pending.
StartClearsNothingWitness ==
    /\ lastEvent.kind = "start" /\ ~lastEvent.scanning
    /\ isScanning
    /\ boxes # <<>> /\ uniqueCodes # <<>>
    /\ timers # {}

\* C17: every scanTime is >= 0 and at most what the clock can move while one
\* frame is handled, however many frames came before; after an accepted frame
\* all entries carry the lag of one reading of the clock, the time of the read
\* less that frame's startTime.
ScanTimeWithinFrame ==
    /\ \A i \in 1..Len(uniqueCodes) :
          uniqueCodes[i].scanTime >= 0 /\ uniqueCodes[i].scanTime <= MaxLag
    /\ AcceptedFrame =>
          \E now \in Clock :
              \A i \in 1..Len(uniqueCodes) :
                  uniqueCodes[i].scanTime = (now.startTime + now.lag) - now.startTime

\* A later frame, handled while the clock moved on, carries that lag only.
ScanTimeWithinFrameWitness ==
    /\ AcceptedFrame
    /\ lastEvent.silence # None
    /\ uniqueCodes # <<>>
    /\ uniqueCodes[1].scanTime = MaxLag
    /\ MaxLag > 0

\* C18: before teardown, whenever boxes is not empty a clear timer is pending.
BoxesHaveTimer == (mounted /\ boxes # <<>>) => timers # {}

\* Boxes are still shown after a Stop, and their timer is pending.
BoxesHaveTimerWitness ==
    /\ mounted /\ ~isScanning
    /\ boxes # <<>>
    /\ \E t \in timers : t.remaining < ClearDelay

\* C19: uniqueCodes is never longer than boxes.
ValuesWithinBoxes == Len(uniqueCodes) <= Len(boxes)

\* A frame left fewer values than boxes, but some.
ValuesWithinBoxesWitness ==
    /\ uniqueCodes # <<>>
    /\ Len(uniqueCodes) < Len(boxes)
====
